---- MODULE Spec2Model ----
(***************************************************************************)
(* Model of the storm pipeline of tc-risk-forecast: a pool of worker       *)
(* processes, each running process_trackset on its own store connection,   *)
(* against one shared store (event table with its id sequence, points      *)
(* table, staging table), and the driver that collects the results.        *)
(***************************************************************************)
EXTENDS Integers, Sequences, FiniteSets, TLC

\* ---------------------------------------------------------------- bounds
NumStorms == 2          \* most storms (tasks) in one run of the driver
MaxBatch == 2           \* most ensemble members (EventRecords) per storm
PtsPerMember == 2       \* track points per ensemble member
ScenarioBatch == 4      \* batch size of the single-storm runs (SpecOne)
SeqStarts == {0, 100}   \* sequence values before the run; 0 = never advanced
MaxSteps == 2           \* most timesteps of a windfield
MaxCents == 2           \* most centroids of a windfield
Cells == {<<0, 0>>, <<3, 4>>, <<0, -3>>}   \* (x, y) wind components of a cell
Thresholds == {0, 3, 5} \* intensity thresholds, in the units of the components

\* ---------------------------------------------------------------- constants
INTENSITY_SERIES_TYPE == 1

W == 1..NumStorms

VARIABLES
    ntasks,      \* len(tracks_per_sid): storms 1..ntasks are the pool's tasks
    pc,          \* pc[w]: position of storm w's process_trackset call
    n,           \* n[w]: number of ensemble members of storm w
    df_meta,     \* df_meta[w]: index of the in-memory EventRecords (per member)
    gdf_points,  \* gdf_points[w]: index of the in-memory TrackPointRecords
    intensity_t, \* intensity_t[w]: in-memory IntensitySeriesRecords
    sent,        \* sent[w]: EventRecord rows the running copy has inserted
    currval,     \* currval[w]: the session's last nextval (0: none yet)
    tx,          \* tx[w]: rows pending in connection w's open transaction
    conOpen,     \* conOpen[w]: connection w is open
    errAt,       \* errAt[w]: where in tracks_to_db the store raised an error:
                 \* "none", "before_ids" (lock, EventRecord insert, read-back:
                 \* the dataframes keep their local indices) or "after_ids"
                 \* (TrackPointRecord insert, commit: the indices are shifted)
    loadErr,     \* loadErr[w]: df_to_postgres caught a commit error (staging)
    lockHolder,  \* holder of the access exclusive lock on the event table, or 0
    seq,         \* the id sequence's last value (0: never advanced)
    eventT,      \* committed rows of fcast_storms_t
    pointsT,     \* committed rows of fcast_storms_pts_t
    stagingT,    \* committed rows of fcast_series_staging_t
    driver,      \* the driver's position
    res,         \* the driver's res: one result per task, once list() returns
    seqStart,    \* history: the sequence's value before the run
    seqBefore,   \* history: seqBefore[w] is the sequence's value before the
                 \* first insert of w's copy
    burnt,       \* history: sequence values taken by transactions that were
                 \* rolled back
    enc_args,    \* the arguments of one _windfield_to_df call
    enc_ret,     \* what that call returned: [called, rows]
    dry_run      \* dry_run[w]: the dry_run argument of storm w's call

vars == <<ntasks, pc, n, df_meta, gdf_points, intensity_t, sent, currval, tx,
          conOpen, errAt, loadErr, lockHolder, seq, eventT, pointsT,
          stagingT, driver, res, seqStart, seqBefore, burnt, enc_args,
          enc_ret, dry_run>>

worker == <<pc, df_meta, gdf_points, intensity_t, sent, currval, conOpen,
            errAt, loadErr, seqBefore>>
store == <<tx, lockHolder, seq, eventT, pointsT, stagingT, burnt>>
tables == <<eventT, pointsT, stagingT>>
pool == <<ntasks, n, driver, res, seqStart, dry_run>>
encoder == <<enc_args, enc_ret>>

\* ---------------------------------------------------------------- helpers
EmptyTx == [ev |-> {}, pts |-> {}, st |-> {}]

\* _long_gdf_to_meta: one EventRecord per member, indexed 0..k-1
_long_gdf_to_meta(k) == [i \in 1..k |-> i - 1]

\* _long_gdf_to_pts: the points of all members in member order; each point
\* carries the index of its member
_long_gdf_to_pts(k) == [j \in 1..(k * PtsPerMember) |-> (j - 1) \div PtsPerMember]

IndexMax(idx) == CHOOSE m \in {idx[i] : i \in DOMAIN idx} :
                    \A i \in DOMAIN idx : idx[i] <= m

\* df.index += off
Shift(idx, off) == [i \in DOMAIN idx |-> idx[i] + off]

\* variant: the offset taken from the batch size instead of the highest index
IdxOffsetByLen(cv, idx) == cv - Len(idx)

\* idx_offset = currval - df_meta.index.max()
IdxOffset(cv, idx) == cv - IndexMax(idx)

\* rows as the store holds them
EventRow(w, id, m) == [id |-> id, owner |-> w, member |-> m]
PointRows(w, idx) == {[id |-> idx[j], owner |-> w, pt |-> j] : j \in DOMAIN idx}
StagingRows(w, rows) == {[storm_id |-> rows[m], owner |-> w, member |-> m,
                          type_id |-> INTENSITY_SERIES_TYPE] : m \in DOMAIN rows}

\* variant: the EventRecord load left at df_to_postgres's default, autocommit
AutocommitEventsOn == TRUE

\* autocommit arguments of the three df_to_postgres calls
AutocommitEvents == FALSE
AutocommitPoints == FALSE
AutocommitStaging == TRUE

\* variant: a lock mode that does not exclude the other allocators
LockShared(w) == TRUE

\* lock table ... in access exclusive mode: granted when nobody holds it
LockFree(w) == lockHolder = 0

\* variant: a lock that outlives the transaction
ReleaseNever(w) == lockHolder

\* the end of w's transaction releases the lock if w holds it
Release(w) == IF lockHolder = w THEN 0 ELSE lockHolder

\* con.commit(): the pending rows t become visible in the tables, locks go
Commit(w, t) ==
    /\ eventT' = eventT \cup t.ev
    /\ pointsT' = pointsT \cup t.pts
    /\ stagingT' = stagingT \cup t.st
    /\ tx' = [tx EXCEPT ![w] = EmptyTx]
    /\ lockHolder' = Release(w)
    /\ UNCHANGED burnt

\* con.rollback(), or the server ending the session: pending rows are dropped,
\* locks go; the sequence is not rolled back
Rollback(w) ==
    /\ tx' = [tx EXCEPT ![w] = EmptyTx]
    /\ lockHolder' = Release(w)
    /\ burnt' = burnt \cup {r.id : r \in tx[w].ev}
    /\ UNCHANGED tables

\* variant: a load that commits whatever its autocommit argument
df_to_postgres_committing(w, t, autocommit) == Commit(w, t)

\* df_to_postgres after a successful copy: commit if autocommit, else leave
\* the rows pending
df_to_postgres(w, t, autocommit) ==
    IF autocommit
    THEN Commit(w, t)
    ELSE /\ tx' = [tx EXCEPT ![w] = t]
         /\ UNCHANGED <<lockHolder, tables, burnt>>

\* variant: dry_run ignored
SkipStoreNever(w) == FALSE

\* if dry_run: return df_meta, gdf_points / if not dry_run: df_to_postgres(...)
SkipStore(w) == dry_run[w]

Running(w) == pc[w] \notin {"absent", "done", "raised", "killed"}

\* ---------------------------------------------------------------- encoder
Abs(x) == IF x < 0 THEN -x ELSE x

\* np.linalg.norm(cell): sqrt(x^2 + y^2), for cells whose norm is a whole number
Norm(c) == CHOOSE r \in 0..(Abs(c[1]) + Abs(c[2])) : r * r = c[1] * c[1] + c[2] * c[2]

\* np.repeat(a, k): every element k times in a row
Repeat(a, k) == [i \in 1..(Len(a) * k) |-> a[((i - 1) \div k) + 1]]

\* variant: the centroid ids repeated element by element
TileAsRepeat(a, k) == [i \in 1..(Len(a) * k) |-> a[((i - 1) \div k) + 1]]

\* np.tile(a, k): the whole of a, k times
Tile(a, k) == [i \in 1..(Len(a) * k) |-> a[((i - 1) % Len(a)) + 1]]

\* windfield.toarray().reshape(nsteps, ncents, 2): row s of the matrix holds
\* the component pairs of the cells of timestep s, one after the other
Reshape3(m, nsteps, ncents) ==
    [s \in 1..nsteps |-> [c \in 1..ncents |-> <<m[s][2 * c - 1], m[s][2 * c]>>]]

\* np.linalg.norm(intensity_3d, axis=-1).ravel(): row-major flattening
NormRavel(a3, nsteps, ncents) ==
    [k \in 1..(nsteps * ncents) |->
        Norm(a3[((k - 1) \div ncents) + 1][((k - 1) % ncents) + 1])]

\* timesteps.reshape((nsteps, ncents)).ravel()
ReshapeRavel(a, nsteps, ncents) ==
    LET a2 == [s \in 1..nsteps |-> [c \in 1..ncents |-> a[(s - 1) * ncents + c]]]
    IN  [k \in 1..(nsteps * ncents) |->
            a2[((k - 1) \div ncents) + 1][((k - 1) % ncents) + 1]]

\* variant: a boundary-inclusive comparison
ExceedsOrEquals(value, threshold) == value >= threshold

\* inten_tr.value > threshold
Exceeds(value, threshold) == value > threshold

\* _windfield_to_df(windfield, centroids, timesteps, index, threshold); the
\* centroids are given by their centroid_id column
_windfield_to_df(windfield, centroid_id, timesteps, index, threshold) ==
    LET nsteps == Len(windfield)
        ncents == Len(centroid_id)
        cid == Tile(centroid_id, nsteps)
        intensity == NormRavel(Reshape3(windfield, nsteps, ncents), nsteps, ncents)
        ts == ReshapeRavel(Repeat(timesteps, ncents), nsteps, ncents)
        inten_tr == [k \in 1..(nsteps * ncents) |->
                        [centroid_id |-> cid[k], value |-> intensity[k],
                         timestamp |-> ts[k]]]
        Kept(r) == Exceeds(r.value, threshold)
        kept == SelectSeq(inten_tr, Kept)
    IN  [k \in 1..Len(kept) |->
            [centroid_id |-> kept[k].centroid_id, value |-> kept[k].value,
             timestamp |-> kept[k].timestamp, storm_id |-> index]]

\* the sparse matrix of a windfield whose cells are given per timestep
AsMatrix(cells) ==
    [s \in DOMAIN cells |->
        [j \in 1..(2 * Len(cells[s])) |-> cells[s][(j + 1) \div 2][2 - (j % 2)]]]

NoCall == [windfield |-> <<>>, centroid_id |-> <<>>, timesteps |-> <<>>,
           index |-> 0, threshold |-> 0]

NotReturned == [called |-> FALSE, rows |-> <<>>]

\* ---------------------------------------------------------------- Init
InitWith(tasks, batches, starts) ==
    /\ ntasks \in tasks
    /\ n \in [W -> batches]
    /\ \A w \in W : w > ntasks => n[w] = 1
    /\ pc = [w \in W |-> IF w <= ntasks THEN "fetch" ELSE "absent"]
    /\ df_meta = [w \in W |-> <<>>]
    /\ gdf_points = [w \in W |-> <<>>]
    /\ intensity_t = [w \in W |-> <<>>]
    /\ sent = [w \in W |-> 0]
    /\ currval = [w \in W |-> 0]
    /\ tx = [w \in W |-> EmptyTx]
    /\ conOpen = [w \in W |-> FALSE]
    /\ errAt = [w \in W |-> "none"]
    /\ loadErr = [w \in W |-> FALSE]
    /\ lockHolder = 0
    /\ seq \in starts
    /\ eventT = {}
    /\ pointsT = {}
    /\ stagingT = {}
    /\ driver = "collecting"
    /\ res = <<>>
    /\ seqStart = seq
    /\ seqBefore = [w \in W |-> 0]
    /\ burnt = {}

NoEncoder ==
    /\ enc_args = NoCall
    /\ enc_ret = NotReturned

\* process_trackset(tracks): dry_run at its default
NotDry == dry_run = [w \in W |-> FALSE]

Init == InitWith(1..NumStorms, 1..MaxBatch, {0}) /\ NoEncoder /\ NotDry

InitOne == InitWith({1}, 1..ScenarioBatch, SeqStarts) /\ NoEncoder /\ NotDry

\* ---------------------------------------------------------------- workers
\* con = psycopg2.connect(DSN); centroids = _fetch_centroids(tracks, con)
FetchCentroids(w) ==
    /\ pc[w] = "fetch"
    /\ pc' = [pc EXCEPT ![w] = "windfield"]
    /\ conOpen' = [conOpen EXCEPT ![w] = TRUE]
    /\ UNCHANGED <<df_meta, gdf_points, intensity_t, sent, currval, seqBefore,
                   errAt, loadErr, store, pool, encoder>>

\* the query of _fetch_centroids raises: nothing in process_trackset catches it
FetchError(w) ==
    /\ pc[w] = "fetch"
    /\ pc' = [pc EXCEPT ![w] = "raised"]
    /\ conOpen' = [conOpen EXCEPT ![w] = TRUE]
    /\ UNCHANGED <<df_meta, gdf_points, intensity_t, sent, currval, seqBefore,
                   errAt, loadErr, store, pool, encoder>>

\* tc_hazard.set_from_tracks(...); then the head of tracks_to_db: the two
\* dataframes with their local indices
ComputeWindfield(w) ==
    /\ pc[w] = "windfield"
    /\ pc' = [pc EXCEPT ![w] = "lock"]
    /\ df_meta' = [df_meta EXCEPT ![w] = _long_gdf_to_meta(n[w])]
    /\ gdf_points' = [gdf_points EXCEPT ![w] = _long_gdf_to_pts(n[w])]
    /\ UNCHANGED <<intensity_t, sent, currval, seqBefore, conOpen, errAt, loadErr,
                   store, pool, encoder>>

\* curs.execute(lock_query): blocks until the lock is granted
LockTable(w) ==
    /\ pc[w] = "lock"
    /\ ~SkipStore(w)
    /\ LockFree(w)
    /\ lockHolder' = w
    /\ pc' = [pc EXCEPT ![w] = "ins_events"]
    /\ UNCHANGED <<df_meta, gdf_points, intensity_t, sent, currval, seqBefore, conOpen,
                   errAt, loadErr, tx, seq, tables, burnt, pool, encoder>>

\* df_to_postgres(df_meta, con, META_TABLE, autocommit=False): the copy
\* inserts the rows one by one, without ids; each takes nextval of the sequence
CopyEventRow(w) ==
    /\ pc[w] = "ins_events"
    /\ sent[w] < n[w]
    /\ seq' = seq + 1
    /\ currval' = [currval EXCEPT ![w] = seq + 1]
    /\ sent' = [sent EXCEPT ![w] = IF sent[w] + 1 = n[w] THEN 0 ELSE sent[w] + 1]
    /\ LET t == [tx[w] EXCEPT !.ev = @ \cup {EventRow(w, seq + 1, sent[w])}]
       IN  IF sent[w] + 1 = n[w]
           THEN /\ df_to_postgres(w, t, AutocommitEvents)
                /\ pc' = [pc EXCEPT ![w] = "currval"]
           ELSE /\ tx' = [tx EXCEPT ![w] = t]
                /\ UNCHANGED <<pc, lockHolder, tables, burnt>>
    /\ seqBefore' = IF sent[w] = 0 THEN [seqBefore EXCEPT ![w] = seq] ELSE seqBefore
    /\ UNCHANGED <<df_meta, gdf_points, intensity_t, conOpen, errAt,
                   loadErr, pool, encoder>>

\* variant: the offset added to df_meta only
ReadCurrvalMetaOnly(w) ==
    /\ pc[w] = "currval"
    /\ df_meta' = [df_meta EXCEPT ![w] = Shift(@, IdxOffset(currval[w], df_meta[w]))]
    /\ pc' = [pc EXCEPT ![w] = "ins_points"]
    /\ UNCHANGED <<gdf_points, intensity_t, sent, currval, seqBefore, conOpen,
                   errAt, loadErr, store, pool, encoder>>

\* select currval(...); idx_offset; df_meta.index += idx_offset;
\* gdf_points.index += idx_offset
ReadCurrval(w) ==
    /\ pc[w] = "currval"
    /\ LET idx_offset == IdxOffset(currval[w], df_meta[w])
       IN  /\ df_meta' = [df_meta EXCEPT ![w] = Shift(@, idx_offset)]
           /\ gdf_points' = [gdf_points EXCEPT ![w] = Shift(@, idx_offset)]
    /\ pc' = [pc EXCEPT ![w] = "ins_points"]
    /\ UNCHANGED <<intensity_t, sent, currval, seqBefore, conOpen, errAt, loadErr,
                   store, pool, encoder>>

\* df_to_postgres(gdf_points, con, META_PTS_TABLE, index=True, autocommit=False)
CopyPoints(w) ==
    /\ pc[w] = "ins_points"
    /\ df_to_postgres(w, [tx[w] EXCEPT !.pts = @ \cup PointRows(w, gdf_points[w])],
                      AutocommitPoints)
    /\ pc' = [pc EXCEPT ![w] = "commit"]
    /\ UNCHANGED <<df_meta, gdf_points, intensity_t, sent, currval, seqBefore, conOpen,
                   errAt, loadErr, seq, pool, encoder>>

\* con.commit(); return df_meta, gdf_points
CommitAlloc(w) ==
    /\ pc[w] = "commit"
    /\ Commit(w, tx[w])
    /\ pc' = [pc EXCEPT ![w] = "encode"]
    /\ UNCHANGED <<df_meta, gdf_points, intensity_t, sent, currval, seqBefore, conOpen,
                   errAt, loadErr, seq, pool, encoder>>

AllocSteps == {"lock", "ins_events", "currval", "ins_points", "commit"}

\* A store operation of tracks_to_db raises psycopg2.Error: the handler prints
\* it and rolls back, and the function returns its dataframes as they are.
\* When the connection is lost the rollback raises too, out of process_trackset.
AllocError(w) ==
    /\ pc[w] \in AllocSteps
    /\ ~SkipStore(w)
    /\ Rollback(w)
    /\ errAt' = [errAt EXCEPT ![w] = IF pc[w] \in {"ins_points", "commit"}
                                      THEN "after_ids" ELSE "before_ids"]
    /\ \E lost \in BOOLEAN :
         IF lost
         THEN /\ pc' = [pc EXCEPT ![w] = "raised"]
              /\ conOpen' = [conOpen EXCEPT ![w] = FALSE]
         ELSE /\ pc' = [pc EXCEPT ![w] = "encode"]
              /\ UNCHANGED conOpen
    /\ sent' = [sent EXCEPT ![w] = 0]
    /\ UNCHANGED <<df_meta, gdf_points, intensity_t, currval, seqBefore, loadErr,
                   seq, pool, encoder>>

\* windfields_to_db up to the load: one dataframe per member, keyed by
\* storm_meta.index
Encode(w) ==
    /\ pc[w] = "encode"
    /\ intensity_t' = [intensity_t EXCEPT ![w] = df_meta[w]]
    /\ pc' = [pc EXCEPT ![w] = "load"]
    /\ UNCHANGED <<df_meta, gdf_points, sent, currval, seqBefore, conOpen, errAt,
                   loadErr, store, pool, encoder>>

\* df_to_postgres(intensity_t, con, SERIES_STAGING): copy and, with autocommit,
\* commit; then con.close(), which drops whatever is still pending, and
\* return 'sid {} done'
LoadStaging(w) ==
    /\ pc[w] = "load"
    /\ ~SkipStore(w)
    /\ IF AutocommitStaging
       THEN Commit(w, [tx[w] EXCEPT !.st = @ \cup StagingRows(w, intensity_t[w])])
       ELSE Rollback(w)
    /\ pc' = [pc EXCEPT ![w] = "done"]
    /\ conOpen' = [conOpen EXCEPT ![w] = FALSE]
    /\ UNCHANGED <<df_meta, gdf_points, intensity_t, sent, currval, seqBefore,
                   errAt, loadErr, seq, pool, encoder>>

\* the copy of the staging load raises: df_to_postgres does not catch it, nor
\* does windfields_to_db or process_trackset
LoadCopyError(w) ==
    /\ pc[w] = "load"
    /\ ~SkipStore(w)
    /\ pc' = [pc EXCEPT ![w] = "raised"]
    /\ UNCHANGED <<df_meta, gdf_points, intensity_t, sent, currval, seqBefore,
                   conOpen, errAt, loadErr, store, pool, encoder>>

\* the commit of the staging load raises: df_to_postgres prints it, rolls back
\* and returns; then con.close() and return 'sid {} done'
LoadCommitError(w) ==
    /\ pc[w] = "load"
    /\ ~SkipStore(w)
    /\ AutocommitStaging
    /\ Rollback(w)
    /\ loadErr' = [loadErr EXCEPT ![w] = TRUE]
    /\ pc' = [pc EXCEPT ![w] = "done"]
    /\ conOpen' = [conOpen EXCEPT ![w] = FALSE]
    /\ UNCHANGED <<df_meta, gdf_points, intensity_t, sent, currval, seqBefore,
                   errAt, seq, pool, encoder>>

\* ---------------------------------------------------------------- driver
\* list(pool.imap(...)) takes the results in task order; the first that is
\* an exception is re-raised in the driver, which leaves the with-block
\* without assigning res; Pool.__exit__ terminates the pool and its workers
CollectRaise ==
    /\ driver = "collecting"
    /\ \E k \in 1..ntasks :
          /\ pc[k] = "raised"
          /\ \A j \in 1..(k - 1) : pc[j] = "done"
    /\ driver' = "raised"
    /\ pc' = [w \in W |-> IF Running(w) THEN "killed" ELSE pc[w]]
    /\ conOpen' = [w \in W |-> IF Running(w) THEN FALSE ELSE conOpen[w]]
    /\ tx' = [w \in W |-> IF Running(w) THEN EmptyTx ELSE tx[w]]
    /\ lockHolder' = IF lockHolder # 0 /\ Running(lockHolder) THEN 0 ELSE lockHolder
    /\ sent' = [w \in W |-> 0]
    /\ burnt' = burnt \cup {r.id : r \in UNION {tx[w].ev : w \in W}}
    /\ UNCHANGED <<ntasks, n, res, seqStart, df_meta, gdf_points, intensity_t,
                   currval, seqBefore, errAt, loadErr, seq, tables, encoder,
                   dry_run>>

\* every task has returned: res = list(...) holds one result per storm and
\* the driver goes on to promote the staged rows
Finish ==
    /\ driver = "collecting"
    /\ \A k \in 1..ntasks : pc[k] = "done"
    /\ res' = [k \in 1..ntasks |-> "done"]
    /\ driver' = "finished"
    /\ UNCHANGED <<ntasks, n, seqStart, worker, store, encoder, dry_run>>

Next ==
    \/ \E w \in W : FetchCentroids(w)
    \/ \E w \in W : FetchError(w)
    \/ \E w \in W : ComputeWindfield(w)
    \/ \E w \in W : LockTable(w)
    \/ \E w \in W : CopyEventRow(w)
    \/ \E w \in W : ReadCurrval(w)
    \/ \E w \in W : CopyPoints(w)
    \/ \E w \in W : CommitAlloc(w)
    \/ \E w \in W : AllocError(w)
    \/ \E w \in W : Encode(w)
    \/ \E w \in W : LoadStaging(w)
    \/ \E w \in W : LoadCopyError(w)
    \/ \E w \in W : LoadCommitError(w)
    \/ CollectRaise
    \/ Finish

Spec == Init /\ [][Next]_vars

SpecOne == InitOne /\ [][Next]_vars

\* ---------------------------------------------------------------- encoder runs
\* the windfield of the 3 x 2 example: magnitudes 5.0, 0.5, 12.0, 0.2, 7.0,
\* 0.1 and threshold 1.0, in units of 0.1
ScenarioCells == << <<<<30, 40>>, <<3, 4>>>>,
                    <<<<0, 120>>, <<0, 2>>>>,
                    <<<<0, 70>>, <<0, 1>>>> >>
ScenarioThreshold == 10

CentroidIds(ncents) == [c \in 1..ncents |-> 600 + c]
Timesteps(nsteps) == [s \in 1..nsteps |-> 10 * s]

ArgsOf(cells, index, threshold) ==
    [windfield |-> AsMatrix(cells),
     centroid_id |-> CentroidIds(Len(cells[1])),
     timesteps |-> Timesteps(Len(cells)),
     index |-> index,
     threshold |-> threshold]

\* one storm-less run whose only step is a call of _windfield_to_df
InitEnc ==
    /\ InitWith({0}, {1}, {0})
    /\ NotDry
    /\ enc_ret = NotReturned
    /\ \/ \E nsteps \in 1..MaxSteps, ncents \in 1..MaxCents :
            \E cells \in [1..nsteps -> [1..ncents -> Cells]] :
               \E index \in {0, 101}, threshold \in Thresholds :
                  enc_args = ArgsOf(cells, index, threshold)
       \/ enc_args = ArgsOf(ScenarioCells, 101, ScenarioThreshold)

WindfieldToDf ==
    /\ ~enc_ret.called
    /\ enc_args # NoCall
    /\ enc_ret' = [called |-> TRUE,
                   rows |-> _windfield_to_df(enc_args.windfield, enc_args.centroid_id,
                                             enc_args.timesteps, enc_args.index,
                                             enc_args.threshold)]
    /\ UNCHANGED <<enc_args, worker, store, pool>>

NextEnc == WindfieldToDf

SpecEnc == InitEnc /\ [][NextEnc]_vars

\* ---------------------------------------------------------------- properties
Tasks == 1..ntasks

EventsOf(w) == {r \in eventT : r.owner = w}
PointsOf(w) == {r \in pointsT : r.owner = w}
StagedOf(w) == {r \in stagingT : r.owner = w}

\* the ids the store gave to the rows of w's batch, committed or pending
StoreIds(w) == {r.id : r \in EventsOf(w) \cup tx[w].ev}

Contiguous(S) == S = {} \/ \E lo \in S : S = lo..(lo + Cardinality(S) - 1)

Values(idx) == {idx[i] : i \in DOMAIN idx}

\* tracks_to_db has returned after its commit
AllocOk(w) == errAt[w] = "none" /\ pc[w] \in {"encode", "load", "done"}

\* tracks_to_db has returned after a store error
AllocFailed(w) == errAt[w] # "none" /\ pc[w] \in {"encode", "load", "done"}

\* C1: concurrent tracks_to_db calls get contiguous, pairwise disjoint id
\* ranges, the ranges they return are the ranges the store assigned, and every
\* sequence value taken so far is the id of an event row of one of the ranges,
\* unless the store rolled back the transaction that took it.
C1_DisjointContiguousRanges ==
    /\ \A w \in W : Contiguous(StoreIds(w))
    /\ \A v, w \in W : v # w => StoreIds(v) \cap StoreIds(w) = {}
    /\ \A w \in W : AllocOk(w) =>
          /\ Values(df_meta[w]) = StoreIds(w)
          /\ Cardinality(StoreIds(w)) = n[w]
    /\ (seqStart + 1)..seq = UNION {StoreIds(w) : w \in W} \cup burnt
    /\ burnt \cap UNION {StoreIds(w) : w \in W} = {}

\* two calls committed batches of two, and the later task took the lower range
C1_Witness ==
    /\ NumStorms >= 2
    /\ AllocOk(1) /\ AllocOk(2)
    /\ StoreIds(2) = {1, 2}
    /\ StoreIds(1) = {3, 4}

\* C2: the event table holds a call's EventRecords if and only if the points
\* table holds its TrackPointRecords, all of them or none; after a store error
\* in tracks_to_db neither table has rows of the call.
C2_AtomicOverTwoTables ==
    \A w \in W :
        /\ EventsOf(w) = {} <=> PointsOf(w) = {}
        /\ EventsOf(w) # {} =>
              /\ Cardinality(EventsOf(w)) = n[w]
              /\ Cardinality(PointsOf(w)) = n[w] * PtsPerMember
              /\ {r.id : r \in PointsOf(w)} = {r.id : r \in EventsOf(w)}
        /\ errAt[w] # "none" => EventsOf(w) = {} /\ PointsOf(w) = {}

\* the store raised an error after the EventRecord insert had succeeded and
\* the ids were read back (in the TrackPointRecord insert or the commit), and
\* the call has returned
C2_Witness ==
    \E w \in W :
        /\ errAt[w] = "after_ids"
        /\ pc[w] = "encode"
        /\ seqBefore[w] + n[w] = currval[w]
        /\ EventsOf(w) = {}

\* C3: every staged IntensitySeriesRecord of a storm carries the id of one of
\* the storm's committed EventRecords.
C3_StagedIdsInAssignedRange ==
    \A w \in W : \A r \in StagedOf(w) \cup tx[w].st :
        r.storm_id \in {e.id : e \in EventsOf(w)}

\* C4: after a store error inside tracks_to_db the call does not return
\* normally: the pipeline is not at a step that follows the call.
C4_StoreErrorPropagates ==
    \A w \in W : errAt[w] # "none" => pc[w] \notin {"encode", "load", "done"}

\* C5: process_trackset returns 'sid ... done' only when the storm's
\* EventRecords, TrackPointRecords and IntensitySeriesRecords are committed,
\* and after an allocation error it does not go on to encode and load.
C5_DoneOnlyIfAllCommitted ==
    \A w \in W :
        /\ pc[w] = "done" =>
              /\ Cardinality(EventsOf(w)) = n[w]
              /\ Cardinality(PointsOf(w)) = n[w] * PtsPerMember
              /\ Cardinality(StagedOf(w)) = n[w]
        /\ errAt[w] # "none" => pc[w] \notin {"encode", "load"}

\* C6: after a successful allocation the EventRecord ids are exactly
\* lowest..lowest+n-1, and every TrackPointRecord's foreign key is the id of
\* its parent EventRecord.
C6_ContiguousIdsAndForeignKeys ==
    \A w \in W : AllocOk(w) =>
        /\ \E lowest \in Values(df_meta[w]) :
              Values(df_meta[w]) = lowest..(lowest + n[w] - 1)
        /\ Len(df_meta[w]) = n[w]
        /\ \A j \in DOMAIN gdf_points[w] :
              /\ gdf_points[w][j] \in Values(df_meta[w])
              /\ gdf_points[w][j] = df_meta[w][((j - 1) \div PtsPerMember) + 1]

\* a batch of two members allocated above an earlier batch
C6_Witness ==
    \E w \in W :
        /\ AllocOk(w)
        /\ n[w] = 2
        /\ df_meta[w][1] > 1
        /\ gdf_points[w][Len(gdf_points[w])] = df_meta[w][2]

\* C7: once the ids are written into the in-memory EventRecords, local row i
\* (0-based) has id s+1+i, s being the sequence's value before the insert; that
\* is the id of the row the store inserted for it, and the highest id is the
\* sequence's value after the insert.
C7_LocalIdsAreStoreIds ==
    \A w \in W :
        (errAt[w] = "none" /\ pc[w] \in {"ins_points", "commit", "encode", "load", "done"}) =>
            /\ \A i \in 1..n[w] :
                  /\ df_meta[w][i] = seqBefore[w] + 1 + (i - 1)
                  /\ EventRow(w, df_meta[w][i], i - 1) \in EventsOf(w) \cup tx[w].ev
            /\ IndexMax(df_meta[w]) = currval[w]
            /\ IndexMax(df_meta[w]) = seq

\* a batch of 4 allocated with the sequence at 100
C7_Witness ==
    /\ n[1] = 4
    /\ seqStart = 100
    /\ pc[1] = "done"
    /\ errAt[1] = "none"
    /\ df_meta[1] = <<101, 102, 103, 104>>

\* C8: a storm has committed TrackPointRecords or IntensitySeriesRecords only
\* if its EventRecords are committed.
C8_EventsCommittedFirst ==
    \A w \in W : (PointsOf(w) # {} \/ StagedOf(w) # {}) => EventsOf(w) # {}

\* C9: a worker in the fetch-locations, compute-windfield, encode-intensity or
\* bulk-load-staging step does not hold the exclusive lock on the event table.
C9_LockOnlyInsideAllocation ==
    \A w \in W :
        pc[w] \in {"fetch", "windfield", "encode", "load"} => lockHolder # w

\* a worker has left the allocation, in which it held the lock, and encodes
\* while another worker holds the lock
C9_Witness ==
    \E v, w \in W :
        /\ v # w
        /\ pc[w] = "encode"
        /\ currval[w] > 0
        /\ lockHolder = v

\* C10: no storm's pipeline is cut short by another storm's failure, and when
\* the driver has left the pool it holds one result per storm.
C10_SiblingsUnaffected ==
    /\ \A w \in Tasks : pc[w] # "killed"
    /\ driver # "collecting" => Len(res) = ntasks

\* ---------------------------------------------------------------- encoder claims
\* the call's tensor, read cell by cell: flattened cell j (from 1) is location
\* (j-1) mod ncents and timestep (j-1) div ncents
CallSteps == Len(enc_args.windfield)
CallCents == Len(enc_args.centroid_id)
CallCells == 1..(CallSteps * CallCents)
CellStep(j) == ((j - 1) \div CallCents) + 1
CellCent(j) == ((j - 1) % CallCents) + 1
MagSq(j) ==
    LET x == enc_args.windfield[CellStep(j)][2 * CellCent(j) - 1]
        y == enc_args.windfield[CellStep(j)][2 * CellCent(j)]
    IN  x * x + y * y
RowOfCell(r, j) ==
    /\ r.centroid_id = enc_args.centroid_id[CellCent(j)]
    /\ r.timestamp = enc_args.timesteps[CellStep(j)]

\* C11: _windfield_to_df emits a row for a (timestep, location) cell if and
\* only if the cell's magnitude is strictly greater than the threshold: every
\* emitted row has value > t, and a cell has a row exactly when its magnitude
\* exceeds t.
C11_RowIffAboveThreshold ==
    enc_ret.called =>
        LET rows == enc_ret.rows
            t == enc_args.threshold
        IN  /\ \A k \in DOMAIN rows : rows[k].value > t
            /\ \A j \in CallCells :
                  (\E k \in DOMAIN rows : RowOfCell(rows[k], j))
                      <=> MagSq(j) > t * t

\* a call has returned for a tensor with a cell exactly at the threshold, a
\* cell above it and a positive threshold
C11_Witness ==
    /\ enc_ret.called
    /\ enc_args.threshold > 0
    /\ \E j \in CallCells : MagSq(j) = enc_args.threshold * enc_args.threshold
    /\ \E j \in CallCells : MagSq(j) > enc_args.threshold * enc_args.threshold
    /\ Len(enc_ret.rows) > 0
    /\ Len(enc_ret.rows) < CallSteps * CallCents

\* C12: the output has at most nsteps*ncents rows, every row carries the
\* location id and timestamp of a cell whose magnitude is the row's value, the
\* rows follow the flattened (timestep-major, location-minor) order of their
\* cells, and the 3 x 2 example yields the values 5.0, 12.0, 7.0 in that order.
C12_TimestepMajorOrder ==
    enc_ret.called =>
        LET rows == enc_ret.rows
            CellOf(k) == CHOOSE j \in CallCells : RowOfCell(rows[k], j)
        IN  /\ Len(rows) <= CallSteps * CallCents
            /\ \A k \in DOMAIN rows :
                  /\ \E j \in CallCells : RowOfCell(rows[k], j)
                  /\ rows[k].value * rows[k].value = MagSq(CellOf(k))
                  /\ rows[k].storm_id = enc_args.index
            /\ \A k1, k2 \in DOMAIN rows : k1 < k2 => CellOf(k1) < CellOf(k2)
            /\ enc_args = ArgsOf(ScenarioCells, 101, ScenarioThreshold) =>
                  [k \in DOMAIN rows |-> rows[k].value] = <<50, 120, 70>>

\* the call on the 3 x 2 example has returned its three rows
C12_Witness ==
    /\ enc_ret.called
    /\ enc_args = ArgsOf(ScenarioCells, 101, ScenarioThreshold)
    /\ Len(enc_ret.rows) = 3
    /\ enc_ret.rows[2].timestamp = 20
    /\ enc_ret.rows[2].centroid_id = 601

\* ---------------------------------------------------------------- lock claims
\* between the grant of the lock and the commit or rollback of tracks_to_db
InAllocation(w) == pc[w] \in {"ins_events", "currval", "ins_points", "commit"}

\* C14: at most one worker is between acquiring the exclusive lock on the
\* event table and its commit or rollback; a worker that inserts EventRecords,
\* reads the sequence back or inserts TrackPointRecords holds the lock, and
\* only the lock holder has uncommitted event or point rows.
C14_AllocationsMutuallyExclusive ==
    /\ \A v, w \in W : InAllocation(v) /\ InAllocation(w) => v = w
    /\ \A w \in W : InAllocation(w) => lockHolder = w
    /\ \A w \in W : (tx[w].ev # {} \/ tx[w].pts # {}) => lockHolder = w

\* one worker has inserted its EventRecords and read the sequence under the
\* lock while another worker waits for the lock
C14_Witness ==
    \E v, w \in W :
        /\ v # w
        /\ pc[w] = "ins_points"
        /\ tx[w].ev # {}
        /\ lockHolder = w
        /\ pc[v] = "lock"

\* ---------------------------------------------------------------- fair runs
\* the steps of process_trackset that return normally
Progress(w) ==
    \/ FetchCentroids(w)
    \/ ComputeWindfield(w)
    \/ LockTable(w)
    \/ CopyEventRow(w)
    \/ ReadCurrval(w)
    \/ CopyPoints(w)
    \/ CommitAlloc(w)
    \/ Encode(w)
    \/ LoadStaging(w)

\* every storm with one member, the sequence never advanced
InitFair == InitWith({NumStorms}, {1}, {0}) /\ NoEncoder /\ NotDry

\* Every worker process and the driver keep being scheduled: a step that
\* stays possible is eventually taken. Store errors are never forced.
Fairness ==
    /\ \A w \in W : WF_vars(Progress(w))
    /\ WF_vars(CollectRaise)
    /\ WF_vars(Finish)

FairSpec == InitFair /\ [][Next]_vars /\ Fairness

C16_ConnectionClosedAtEnd ==
    \A w \in W : pc[w] \in {"done", "raised"} => ~conOpen[w]

\* ---------------------------------------------------------------- df_to_postgres
\* C17: a df_to_postgres call with autocommit=False (the EventRecord and the
\* TrackPointRecord load) adds its rows to the pending transaction and neither
\* commits nor rolls back: the tables, the lock and the rows already pending
\* stay as they are. The call with autocommit left at its default (the staging
\* load) that returns without an error has committed its rows. A call whose
\* copy raises changes nothing in the store and the error leaves the call.
C17_CommitsOnlyWithAutocommit ==
    [][\A w \in W :
          /\ (pc[w] = "ins_events" /\ pc'[w] = "currval") =>
                /\ tx'[w].ev # {}
                /\ tx'[w].ev \cap eventT' = {}
                /\ lockHolder' = w
                /\ UNCHANGED tables
          /\ (pc[w] = "ins_points" /\ pc'[w] = "commit") =>
                /\ tx'[w].pts = PointRows(w, gdf_points[w])
                /\ tx'[w].ev = tx[w].ev
                /\ tx'[w].ev # {}
                /\ lockHolder' = w
                /\ UNCHANGED tables
          /\ (pc[w] = "load" /\ pc'[w] = "done" /\ ~loadErr'[w]) =>
                /\ stagingT' = stagingT \cup StagingRows(w, intensity_t[w])
                /\ tx'[w] = EmptyTx
          /\ (pc[w] = "load" /\ pc'[w] = "raised") =>
                UNCHANGED store
      ]_vars

\* the storm's three loads have returned: the two deferred ones were committed
\* by tracks_to_db, the staging rows by df_to_postgres itself
C17_Witness ==
    /\ pc[1] = "done"
    /\ ~loadErr[1]
    /\ errAt[1] = "none"
    /\ EventsOf(1) # {}
    /\ PointsOf(1) # {}
    /\ StagedOf(1) # {}

\* ---------------------------------------------------------------- dry runs
\* tracks_to_db with dry_run: the dataframes are returned as built, before the
\* cursor is opened
DryRunReturn(w) ==
    /\ pc[w] = "lock"
    /\ SkipStore(w)
    /\ pc' = [pc EXCEPT ![w] = "encode"]
    /\ UNCHANGED <<df_meta, gdf_points, intensity_t, sent, currval, seqBefore,
                   conOpen, errAt, loadErr, store, pool, encoder>>

\* windfields_to_db with dry_run: the load is skipped; then con.close() and
\* return 'sid {} done'
DryRunSkipLoad(w) ==
    /\ pc[w] = "load"
    /\ SkipStore(w)
    /\ pc' = [pc EXCEPT ![w] = "done"]
    /\ conOpen' = [conOpen EXCEPT ![w] = FALSE]
    /\ UNCHANGED <<df_meta, gdf_points, intensity_t, sent, currval, seqBefore,
                   errAt, loadErr, store, pool, encoder>>

\* every storm with MaxBatch members, each called with or without dry_run
InitDry ==
    /\ InitWith({NumStorms}, {MaxBatch}, {0})
    /\ NoEncoder
    /\ dry_run \in [W -> BOOLEAN]

NextDry ==
    \/ Next
    \/ \E w \in W : DryRunReturn(w)
    \/ \E w \in W : DryRunSkipLoad(w)

SpecDry == InitDry /\ [][NextDry]_vars

\* C18: a storm processed with dry_run never holds the lock, has no pending
\* and no committed row in the event, points or staging table and has taken no
\* value of the id sequence: every value taken is the id of another storm's
\* event row, so with every storm dry the sequence stays where it was. The
\* records returned by tracks_to_db keep their local 0-based indices.
C18_DryRunLeavesStoreUnchanged ==
    /\ \A w \in W :
          dry_run[w] =>
             /\ lockHolder # w
             /\ tx[w] = EmptyTx
             /\ EventsOf(w) = {} /\ PointsOf(w) = {} /\ StagedOf(w) = {}
             /\ currval[w] = 0
             /\ pc[w] \in {"encode", "load", "done"} =>
                   /\ df_meta[w] = _long_gdf_to_meta(n[w])
                   /\ gdf_points[w] = _long_gdf_to_pts(n[w])
    /\ (seqStart + 1)..seq =
          {r.id : r \in eventT} \cup burnt \cup
          UNION {{r.id : r \in tx[w].ev} : w \in {v \in W : ~dry_run[v]}}
    /\ (\A w \in W : dry_run[w]) =>
          /\ seq = seqStart
          /\ eventT = {} /\ pointsT = {} /\ stagingT = {}

\* a storm has gone through its dry run, indices 0 .. MaxBatch-1, while
\* another storm, not dry, has committed its EventRecords
C18_Witness ==
    \E v, w \in W :
        /\ dry_run[w] /\ ~dry_run[v]
        /\ pc[w] = "done"
        /\ intensity_t[w] = _long_gdf_to_meta(MaxBatch)
        /\ EventsOf(v) # {}

\* ---------------------------------------------------------------- earlier allocator
\* process_one_storm(storm_tracks, write_to_db) of auxiliary_funs.py, with
\* write_to_db the opposite of dry_run
write_to_db(w) == ~dry_run[w]

\* select last_value from fcast_storms_t_id_seq: a sequence that has never
\* been advanced shows its start value, 1, which is also the next value given
last_value == IF seq = 0 THEN 1 ELSE seq

\* connect, centroids and windfields; tracks_to_storm_ids builds df, indexed
\* 0..k-1
OldBuildDf(w) ==
    /\ pc[w] = "fetch"
    /\ df_meta' = [df_meta EXCEPT ![w] = _long_gdf_to_meta(n[w])]
    /\ conOpen' = [conOpen EXCEPT ![w] = TRUE]
    /\ pc' = [pc EXCEPT ![w] = "old_lock"]
    /\ UNCHANGED <<gdf_points, intensity_t, sent, currval, seqBefore, errAt,
                   loadErr, store, pool, encoder>>

\* lock table fcast_storms_t in access exclusive mode
OldLockTable(w) ==
    /\ pc[w] = "old_lock"
    /\ LockFree(w)
    /\ lockHolder' = w
    /\ pc' = [pc EXCEPT ![w] = "old_read"]
    /\ UNCHANGED <<df_meta, gdf_points, intensity_t, sent, currval, seqBefore,
                   conOpen, errAt, loadErr, tx, seq, tables, burnt, pool, encoder>>

\* last_value = curs.fetchone()[0]; df.index += last_value+1
OldReadLastValue(w) ==
    /\ pc[w] = "old_read"
    /\ df_meta' = [df_meta EXCEPT ![w] = Shift(@, last_value + 1)]
    /\ seqBefore' = [seqBefore EXCEPT ![w] = seq]
    /\ pc' = [pc EXCEPT ![w] = IF write_to_db(w) THEN "old_copy" ELSE "old_commit"]
    /\ UNCHANGED <<gdf_points, intensity_t, sent, currval, conOpen, errAt,
                   loadErr, store, pool, encoder>>

\* curs.copy_from(sio, tblname, ...) of the csv written with index=False: the
\* rows go in one by one, each taking nextval of the sequence
OldCopyRow(w) ==
    /\ pc[w] = "old_copy"
    /\ sent[w] < n[w]
    /\ seq' = seq + 1
    /\ currval' = [currval EXCEPT ![w] = seq + 1]
    /\ sent' = [sent EXCEPT ![w] = IF sent[w] + 1 = n[w] THEN 0 ELSE sent[w] + 1]
    /\ tx' = [tx EXCEPT ![w].ev = @ \cup {EventRow(w, seq + 1, sent[w])}]
    /\ pc' = [pc EXCEPT ![w] = IF sent[w] + 1 = n[w] THEN "old_commit" ELSE "old_copy"]
    /\ UNCHANGED <<df_meta, gdf_points, intensity_t, seqBefore, conOpen, errAt,
                   loadErr, lockHolder, tables, burnt, pool, encoder>>

\* con.commit(); return df
OldCommit(w) ==
    /\ pc[w] = "old_commit"
    /\ Commit(w, tx[w])
    /\ pc' = [pc EXCEPT ![w] = "old_staging"]
    /\ UNCHANGED <<df_meta, gdf_points, intensity_t, sent, currval, seqBefore,
                   conOpen, errAt, loadErr, seq, pool, encoder>>

\* a statement of the try block raises psycopg2.Error: print, rollback,
\* return df; with the connection lost the rollback raises as well
OldAllocError(w) ==
    /\ pc[w] \in {"old_lock", "old_read", "old_copy", "old_commit"}
    /\ Rollback(w)
    /\ errAt' = [errAt EXCEPT ![w] = "before_ids"]
    /\ \E lost \in BOOLEAN :
         IF lost
         THEN /\ pc' = [pc EXCEPT ![w] = "raised"]
              /\ conOpen' = [conOpen EXCEPT ![w] = FALSE]
         ELSE /\ pc' = [pc EXCEPT ![w] = "old_staging"]
              /\ UNCHANGED conOpen
    /\ sent' = [sent EXCEPT ![w] = 0]
    /\ UNCHANGED <<df_meta, gdf_points, intensity_t, currval, seqBefore, loadErr,
                   seq, pool, encoder>>

\* windfields_to_intensity_df(hazard, tracks, storm_ids); if write_to_db:
\* df_to_postgres(inten_df, con, 'fcast_series_staging_t'), which commits;
\* con.close(); return 'sid {} done'
OldLoadStaging(w) ==
    /\ pc[w] = "old_staging"
    /\ intensity_t' = [intensity_t EXCEPT ![w] = df_meta[w]]
    /\ IF write_to_db(w)
       THEN Commit(w, [tx[w] EXCEPT !.st = @ \cup StagingRows(w, df_meta[w])])
       ELSE UNCHANGED store
    /\ pc' = [pc EXCEPT ![w] = "done"]
    /\ conOpen' = [conOpen EXCEPT ![w] = FALSE]
    /\ UNCHANGED <<df_meta, gdf_points, sent, currval, seqBefore, errAt, loadErr,
                   seq, pool, encoder>>

\* the copy or the commit of the staging load raises, out of process_one_storm
OldLoadError(w) ==
    /\ pc[w] = "old_staging"
    /\ write_to_db(w)
    /\ intensity_t' = [intensity_t EXCEPT ![w] = df_meta[w]]
    /\ pc' = [pc EXCEPT ![w] = "raised"]
    /\ UNCHANGED <<df_meta, gdf_points, sent, currval, seqBefore, conOpen, errAt,
                   loadErr, store, pool, encoder>>

\* concurrent callers of process_one_storm, on a fresh or a used sequence
InitOld ==
    /\ InitWith(1..NumStorms, 1..MaxBatch, SeqStarts)
    /\ NoEncoder
    /\ dry_run \in [W -> BOOLEAN]
    /\ \A w \in W : w > ntasks => ~dry_run[w]

NextOld ==
    \/ \E w \in W : OldBuildDf(w)
    \/ \E w \in W : OldLockTable(w)
    \/ \E w \in W : OldReadLastValue(w)
    \/ \E w \in W : OldCopyRow(w)
    \/ \E w \in W : OldCommit(w)
    \/ \E w \in W : OldAllocError(w)
    \/ \E w \in W : OldLoadStaging(w)
    \/ \E w \in W : OldLoadError(w)

SpecOld == InitOld /\ [][NextOld]_vars

\* C19: once tracks_to_storm_ids has returned without a store error, having
\* written its rows, the index of every returned row is the id the store
\* gave to that member's inserted row.
C19_OldIndexIsStoreId ==
    \A w \in W :
        (pc[w] \in {"old_staging", "done"} /\ errAt[w] = "none" /\ write_to_db(w)) =>
            /\ Cardinality(EventsOf(w)) = n[w]
            /\ \A r \in EventsOf(w) : df_meta[w][r.member + 1] = r.id

====
